---- MODULE Spec2Model ----
(***************************************************************************)
(* A model of the rbpe byte-pair-encoding tokenizer: util.rs (get_stats,   *)
(* merge), tokenizers/basic.rs (Tokenizer) and tokenizers/regex.rs         *)
(* (RegexTokenizer).                                                       *)
(*                                                                         *)
(* Texts are sequences of bytes (u8 as 0..255), symbol ids are naturals,   *)
(* a pair is a 2-tuple <<a, b>>, a HashMap is a TLA+ function whose        *)
(* DOMAIN is the key set.  Rust's HashMap iterates in an order that        *)
(* depends on a per-map random seed, so every iteration whose result       *)
(* depends on the order is a nondeterministic choice over the orders.      *)
(***************************************************************************)
EXTENDS Naturals, Integers, Sequences, FiniteSets, TLC

\* ------------------------------------------------------------------ bounds

\* Longest text handed to train (in bytes).
MaxLen == 4

\* Longest text handed to encode (in bytes).
MaxEncLen == 3

\* Largest number of merges a train call may ask for (vocab_size - 256).
MaxMerges == 2

\* Number of train calls made on one tokenizer instance under SpecRetrain
\* (Spec trains a fresh instance once).
MaxTrains == 2

\* Longest text handed to a train call after the first (in bytes).
MaxRetrainLen == 3

\* The bytes texts are written with: 'a', 'b', ' '.
Alphabet == {97, 98, 32}

\* ------------------------------------------------------- program constants

\* First id given to a merged token (basic.rs: 256 + i; vocab is 0..256).
FirstMergeId == 256

\* u32::MAX, the key encode gives a pair that is in no merge table.  TLC's
\* integers end at 2^31 - 1, which stands for it: only its being greater than
\* every id matters.
U32Max == 2147483647

\* GPT4_SPLIT_PATTERN as bytes.
GPT4_SPLIT_PATTERN ==
  << 39, 40, 63, 105, 58, 91, 115, 100, 109, 116, 93, 124, 108, 108, 124,
     118, 101, 124, 114, 101, 41, 124, 91, 94, 92, 114, 92, 110, 92, 112,
     123, 76, 125, 92, 112, 123, 78, 125, 93, 63, 92, 112, 123, 76, 125, 43,
     124, 92, 112, 123, 78, 125, 123, 49, 44, 51, 125, 124, 32, 63, 91, 94,
     92, 115, 92, 112, 123, 76, 125, 92, 112, 123, 78, 125, 93, 43, 91, 92,
     114, 92, 110, 93, 42, 124, 92, 115, 42, 91, 92, 114, 92, 110, 93, 124,
     92, 115, 43 >>

\* ----------------------------------------------------------------- helpers

\* Option::None for a pair; a local that holds no value yet is <<>> (a
\* sequence) or 0 (an id).
None == <<>>

\* All sequences over S of length at most n.
SeqsUpTo(S, n) == UNION {[1..k -> S] : k \in 0..n}

\* The texts train and encode are called with.
Texts == SeqsUpTo(Alphabet, MaxLen)
EncTexts == SeqsUpTo(Alphabet, MaxEncLen)
RetrainTexts == SeqsUpTo(Alphabet, MaxRetrainLen)

\* All orders in which a HashMap with key set S may be iterated.
Orders(S) ==
  {f \in [1..Cardinality(S) -> S] : \A x \in S : \E k \in DOMAIN f : f[k] = x}

\* Concatenation of a sequence of sequences (Vec::concat, Vec::extend).
RECURSIVE Flatten(_)
Flatten(ss) == IF ss = <<>> THEN <<>> ELSE Head(ss) \o Flatten(Tail(ss))

\* The pairs adjacent in ids: ids.windows(2).
Windows(ids) == {<<ids[k], ids[k + 1]>> : k \in 1..(Len(ids) - 1)}

\* ------------------------------------------------------------------ util.rs

\* get_stats: the count of every adjacent pair of ids.
get_stats(ids) ==
  [p \in Windows(ids) |->
     Cardinality({k \in 1..(Len(ids) - 1) : <<ids[k], ids[k + 1]>> = p})]

\* A merge that resumes right after the first id of a match (overlapping matches).
MergeSkipOne(i) == i + 1

\* The step of merge's while loop after a match at i: i += 2.
MergeSkip(i) == i + 2

\* merge's while loop, from 1-based position i with new_ids built so far.
RECURSIVE merge_loop(_, _, _, _, _)
merge_loop(ids, pair, idx, i, new_ids) ==
  IF i > Len(ids) THEN new_ids
  ELSE IF i + 1 <= Len(ids) /\ ids[i] = pair[1] /\ ids[i + 1] = pair[2]
       THEN merge_loop(ids, pair, idx, MergeSkip(i), Append(new_ids, idx))
       ELSE merge_loop(ids, pair, idx, i + 1, Append(new_ids, ids[i]))

\* merge(ids, pair, idx).
merge(ids, pair, idx) == merge_loop(ids, pair, idx, 1, <<>>)

\* ------------------------------------------- the splitting pattern (regex.rs)

\* \p{L}, \p{N}, \s and [\r\n] on ASCII bytes (the texts of the model are ASCII).
IsL(b) == (b \in 65..90) \/ (b \in 97..122)
IsN(b) == b \in 48..57
IsAsciiDigit(b) == b \in 48..57
IsS(b) == b \in {9, 10, 11, 12, 13, 32}
IsNL(b) == b \in {10, 13}
\* [^\r\n\p{L}\p{N}] and [^\s\p{L}\p{N}].
IsLead(b) == ~IsNL(b) /\ ~IsL(b) /\ ~IsN(b)
IsPunct(b) == ~IsS(b) /\ ~IsL(b) /\ ~IsN(b)

\* Membership of byte b in the character class named C.
InClass(C, b) ==
  CASE C = "L" -> IsL(b)
    [] C = "N" -> IsN(b)
    [] C = "S" -> IsS(b)
    [] C = "NL" -> IsNL(b)
    [] C = "Punct" -> IsPunct(b)

\* The first position j >= i of t whose byte is not in class C (Len(t)+1 if none).
RECURSIVE RunEnd(_, _, _)
RunEnd(t, i, C) ==
  IF i <= Len(t) /\ InClass(C, t[i]) THEN RunEnd(t, i + 1, C) ELSE i

\* ASCII lower-casing for (?i: ...).
Lower(b) == IF b \in 65..90 THEN b + 32 ELSE b

\* Each alternative of GPT4_SPLIT_PATTERN tried at position i of t: the position
\* right after the match, or 0 when the alternative does not match at i.
\* '(?i:[sdmt]|ll|ve|re)
Alt1(t, i) ==
  IF t[i] /= 39 \/ i + 1 > Len(t) THEN 0
  ELSE IF Lower(t[i + 1]) \in {115, 100, 109, 116} THEN i + 2
  ELSE IF i + 2 <= Len(t)
          /\ <<Lower(t[i + 1]), Lower(t[i + 2])>>
               \in {<<108, 108>>, <<118, 101>>, <<114, 101>>}
       THEN i + 3
  ELSE 0
\* [^\r\n\p{L}\p{N}]?\p{L}+
Alt2(t, i) ==
  IF i + 1 <= Len(t) /\ IsLead(t[i]) /\ IsL(t[i + 1]) THEN RunEnd(t, i + 1, "L")
  ELSE IF IsL(t[i]) THEN RunEnd(t, i, "L")
  ELSE 0
\* \p{N}{1,3}
Alt3(t, i) ==
  IF ~IsN(t[i]) THEN 0
  ELSE IF RunEnd(t, i, "N") > i + 3 THEN i + 3 ELSE RunEnd(t, i, "N")
\*  ?[^\s\p{L}\p{N}]+[\r\n]*
Alt4(t, i) ==
  IF t[i] = 32 /\ i + 1 <= Len(t) /\ IsPunct(t[i + 1])
  THEN RunEnd(t, RunEnd(t, i + 1, "Punct"), "NL")
  ELSE IF IsPunct(t[i]) THEN RunEnd(t, RunEnd(t, i, "Punct"), "NL")
  ELSE 0
\* \s*[\r\n]: the whitespace run from i, cut after its last \r or \n.
Alt5(t, i) ==
  LET nl == {k \in i..(RunEnd(t, i, "S") - 1) : IsNL(t[k])}
  IN IF nl = {} THEN 0 ELSE (CHOOSE k \in nl : \A j \in nl : j <= k) + 1
\* \s+
Alt6(t, i) == IF IsS(t[i]) THEN RunEnd(t, i, "S") ELSE 0

\* The leftmost-first match at i: the first alternative that matches.
MatchAt(t, i) ==
  IF Alt1(t, i) /= 0 THEN Alt1(t, i)
  ELSE IF Alt2(t, i) /= 0 THEN Alt2(t, i)
  ELSE IF Alt3(t, i) /= 0 THEN Alt3(t, i)
  ELSE IF Alt4(t, i) /= 0 THEN Alt4(t, i)
  ELSE IF Alt5(t, i) /= 0 THEN Alt5(t, i)
  ELSE Alt6(t, i)

\* compiled_pattern.find_iter(text) from position i: the successive
\* non-overlapping matches; a byte no alternative matches is skipped.
RECURSIVE find_iter_from(_, _)
find_iter_from(t, i) ==
  IF i > Len(t) THEN <<>>
  ELSE IF MatchAt(t, i) = 0 THEN find_iter_from(t, i + 1)
  ELSE <<SubSeq(t, i, MatchAt(t, i) - 1)>> \o find_iter_from(t, MatchAt(t, i))

\* text_chunks: find_iter(text).map(|m| m.as_str()).collect().
text_chunks(text) == find_iter_from(text, 1)

\* ------------------------------------------------------------------- state

VARIABLES
  kind,        \* "basic" (Tokenizer) or "regex" (RegexTokenizer): the instance built
  merges,      \* Tokenizer.merges: HashMap<(u32, u32), u32>
  vocab,       \* Tokenizer.vocab: HashMap<u32, Vec<u8>>
  pattern,     \* Tokenizer.pattern, as bytes
  pc,          \* where the instance is: "idle", or inside train / encode
  text,        \* the text argument of the running train or encode call
  ids,         \* Tokenizer::train and encode: the id sequence (Vec<u32>);
               \* RegexTokenizer::train: one id sequence per chunk (Vec<Vec<u32>>)
  i,           \* train: the loop index i
  num_merges,  \* train: vocab_size - 256
  pair,        \* train / encode: the pair selected by the last loop iteration
  idx,         \* train / encode: the id used by the last loop iteration
  out,         \* the Vec<u32> encode returned (pc = "encoded", "decoded")
  decoded,     \* the String decode returned for it, as bytes (pc = "decoded")
  trains,      \* number of train calls started on the instance
  assigned,    \* history: the ids train assigned, in the order it assigned them
  file,        \* the bytes of P.model (<<>>: not written yet)
  saved,       \* history: merges, vocab and pattern of the instance when it saved
  ld,          \* a second, fresh instance of the same kind, which loads P.model
               \* (read: history, the bytes it loaded)
  twin,        \* a second, fresh instance of the same kind, trained on the same input
  arg,         \* merge called on its own: its arguments and its result
  trained      \* history: the text and the final ids of a train call that returned

vars ==
  <<kind, merges, vocab, pattern, pc, text, ids, i, num_merges, pair, idx, out,
    decoded, trains, assigned, file, saved, ld, twin, arg, trained>>

\* The variables of the instance itself and of its running call.
tok_vars ==
  <<kind, merges, vocab, pattern, pc, text, ids, i, num_merges, pair, idx, out,
    decoded, trains, assigned, trained>>

\* The empty HashMap.
EmptyMap == [x \in {} |-> 0]

\* (0..256).map(|idx| (idx, vec![idx as u8])).collect()
BaseVocab == [b \in 0..(FirstMergeId - 1) |-> <<b>>]

\* m with key k set to v (HashMap::insert).
Insert(m, k, v) == [x \in (DOMAIN m) \cup {k} |-> IF x = k THEN v ELSE m[x]]

\* The pattern field after Tokenizer::new() / RegexTokenizer::new().
new_pattern(k) == IF k = "regex" THEN GPT4_SPLIT_PATTERN ELSE <<>>

\* Tokenizer::new() / RegexTokenizer::new(), and nothing saved or loaded.
InitTok ==
  /\ kind \in {"basic", "regex"}
  /\ merges = EmptyMap
  /\ vocab = BaseVocab
  /\ pattern = new_pattern(kind)
  /\ file = <<>>
  /\ saved = [merges |-> EmptyMap, vocab |-> BaseVocab, pattern |-> <<>>]
  /\ ld = [pc |-> "new", merges |-> EmptyMap, vocab |-> BaseVocab,
           pattern |-> new_pattern(kind), read |-> <<>>]
  /\ twin = [pc |-> "new", merges |-> EmptyMap, vocab |-> BaseVocab,
             ids |-> <<>>, i |-> 0]
  /\ pc = "idle"
  /\ text = <<>>
  /\ ids = <<>>
  /\ i = 0
  /\ num_merges = 0
  /\ pair = None
  /\ idx = 0
  /\ out = <<>>
  /\ decoded = <<>>
  /\ trains = 0
  /\ assigned = <<>>
  /\ trained = [text |-> <<>>, ids |-> <<>>]

Init ==
  /\ InitTok
  /\ arg = [pc |-> "none", ids |-> <<>>, pair |-> None, idx |-> 0, result |-> <<>>]

\* ------------------------------------------------------------------- train

\* vocab.get(&id), with a missing entry read as no bytes (decode's filter_map,
\* RegexTokenizer::train's unwrap_or(&vec![])).
token_bytes(v, id) == IF id \in DOMAIN v THEN v[id] ELSE <<>>

\* find_most_frequent_pair: stats.iter().max_by_key(count) returns one of the
\* pairs of highest count, which one depends on the map's iteration order.
\* The set of pairs it may return (empty: it returns None).
find_most_frequent_pair(stats) ==
  {p \in DOMAIN stats : \A q \in DOMAIN stats : stats[q] <= stats[p]}

\* RegexTokenizer::train's stats: the counts of get_stats summed over the chunks.
RECURSIVE SumCounts(_, _)
SumCounts(chunks, p) ==
  IF chunks = <<>> THEN 0
  ELSE (IF p \in DOMAIN get_stats(Head(chunks)) THEN get_stats(Head(chunks))[p] ELSE 0)
       + SumCounts(Tail(chunks), p)

\* Statistics taken over the chunks laid end to end, boundaries ignored.
chunk_stats_flat(chunks) == get_stats(Flatten(chunks))

chunk_stats(chunks) ==
  [p \in UNION {DOMAIN get_stats(chunks[k]) : k \in DOMAIN chunks} |->
     SumCounts(chunks, p)]

\* The statistics of one training iteration of an instance of kind k:
\* get_stats(&ids), or the sum over the chunks.
train_stats(k, seqs) ==
  IF k = "basic" THEN get_stats(seqs) ELSE chunk_stats(seqs)

\* An id that does not advance with the iteration.
new_id_fixed(n) == FirstMergeId

\* The id a training iteration assigns: 256 + i.
new_id(n) == FirstMergeId + n

\* ids after the iteration: merge on the sequence, or on every chunk.
train_merge(k, seqs, p, id) ==
  IF k = "basic" THEN merge(seqs, p, id)
  ELSE [c \in DOMAIN seqs |-> merge(seqs[c], p, id)]

\* self.vocab.insert(idx, [vocab[pair.0], vocab[pair.1]].concat()); an operand
\* the vocabulary lacks counts as empty in RegexTokenizer::train (unwrap_or)
\* and cannot be lacking in Tokenizer::train.
train_vocab(v, p, id) == Insert(v, id, token_bytes(v, p[1]) \o token_bytes(v, p[2]))

\* The id sequences train starts from: the bytes, or the bytes of each chunk.
train_ids(k, t) == IF k = "basic" THEN t ELSE text_chunks(t)

\* train(text, vocab_size, verbose) up to the loop: assert, num_merges, ids.
TrainCall(texts) ==
  /\ pc = "idle"
  /\ \E t \in texts, vocab_size \in FirstMergeId..(FirstMergeId + MaxMerges) :
       /\ text' = t
       /\ num_merges' = vocab_size - FirstMergeId
       /\ ids' = train_ids(kind, t)
       /\ pc' = IF vocab_size - FirstMergeId = 0 THEN "train_exit" ELSE "train"
  /\ i' = 0
  /\ pair' = None
  /\ idx' = 0
  /\ trains' = trains + 1
  /\ UNCHANGED <<kind, merges, vocab, pattern, out, decoded, assigned,
                 file, saved, ld, twin, arg, trained>>

\* train on a fresh instance.
TrainStart == trains = 0 /\ TrainCall(Texts)

\* A further train call on an instance that was trained before.
Retrain == trains \in 1..(MaxTrains - 1) /\ TrainCall(RetrainTexts)

\* Where the loop is after iteration n of total: at the next one, or left.
loop_pc(n, total, brk) == IF brk \/ n + 1 >= total THEN "train_exit" ELSE "train"

\* One iteration of the training loop that finds a pair.
TrainMerge ==
  /\ pc = "train"
  /\ \E p \in find_most_frequent_pair(train_stats(kind, ids)) :
       /\ pair' = p
       /\ idx' = new_id(i)
       /\ ids' = train_merge(kind, ids, p, new_id(i))
       /\ merges' = Insert(merges, p, new_id(i))
       /\ vocab' = train_vocab(vocab, p, new_id(i))
       /\ assigned' = Append(assigned, new_id(i))
  /\ i' = i + 1
  /\ pc' = loop_pc(i, num_merges, FALSE)
  /\ UNCHANGED <<kind, pattern, text, num_merges, out, decoded, trains,
                 file, saved, ld, twin, arg, trained>>

\* One iteration that finds no pair: Tokenizer::train goes on with the next i,
\* RegexTokenizer::train breaks.
TrainNoPair ==
  /\ pc = "train"
  /\ find_most_frequent_pair(train_stats(kind, ids)) = {}
  /\ pair' = None
  /\ idx' = 0
  /\ i' = IF kind = "regex" THEN i ELSE i + 1
  /\ pc' = loop_pc(i, num_merges, kind = "regex")
  /\ UNCHANGED <<kind, merges, vocab, pattern, text, ids, num_merges, out,
                 decoded, trains, assigned,
                 file, saved, ld, twin, arg, trained>>

\* train returns: its locals are dropped.
TrainReturnTo(h) ==
  /\ pc = "train_exit"
  /\ trained' = h
  /\ pc' = "idle"
  /\ text' = <<>>
  /\ ids' = <<>>
  /\ i' = 0
  /\ num_merges' = 0
  /\ pair' = None
  /\ idx' = 0
  /\ UNCHANGED <<kind, merges, vocab, pattern, out, decoded, trains, assigned,
                 file, saved, ld, twin, arg>>

TrainReturn == TrainReturnTo(trained)

\* train returns, and the text it was called with and its final ids are recorded.
TrainReturnKeep == TrainReturnTo([text |-> text, ids |-> ids])

\* ------------------------------------------------------- encode and decode

\* A priority that knows only the first merge (used to test C11).
merge_key_first(m, p) ==
  IF p \in DOMAIN m /\ m[p] = FirstMergeId THEN m[p] ELSE U32Max

\* self.merges.get(&pair).unwrap_or(&u32::MAX)
merge_key(m, p) == IF p \in DOMAIN m THEN m[p] ELSE U32Max

\* A selection that takes any pair the merge table knows, whatever its id.
min_key_pairs_any(m, stats) == {p \in DOMAIN stats : p \in DOMAIN m}

\* stats.iter().min_by_key(key): one of the pairs of smallest key, which one
\* depends on the iteration order when several share it.
min_key_pairs(m, stats) ==
  {p \in DOMAIN stats :
     \A q \in DOMAIN stats : merge_key(m, p) <= merge_key(m, q)}

\* RegexTokenizer::encode_chunk's while loop on chunk_ids from 1-based position k.
RECURSIVE encode_chunk_loop(_, _, _)
encode_chunk_loop(m, chunk_ids, k) ==
  IF ~(k + 1 <= Len(chunk_ids)) THEN chunk_ids
  ELSE IF <<chunk_ids[k], chunk_ids[k + 1]>> \in DOMAIN m
       THEN encode_chunk_loop(
              m,
              SubSeq(chunk_ids, 1, k - 1)
                \o <<m[<<chunk_ids[k], chunk_ids[k + 1]>>]>>
                \o SubSeq(chunk_ids, k + 2, Len(chunk_ids)),
              k)
       ELSE encode_chunk_loop(m, chunk_ids, k + 1)

\* RegexTokenizer::encode_chunk(chunk) with merge table m.
encode_chunk(m, chunk) == encode_chunk_loop(m, chunk, 1)

\* RegexTokenizer::encode(text) with merge table m.
regex_encode(m, t) ==
  Flatten([k \in DOMAIN text_chunks(t) |-> encode_chunk(m, text_chunks(t)[k])])

\* Whether s[k] is a UTF-8 continuation byte within lo..hi.
Cont(s, k, lo, hi) == k <= Len(s) /\ s[k] >= lo /\ s[k] <= hi

\* String::from_utf8's check, from position k.
RECURSIVE Utf8Valid(_, _)
Utf8Valid(s, k) ==
  IF k > Len(s) THEN TRUE
  ELSE IF s[k] < 128 THEN Utf8Valid(s, k + 1)
  ELSE IF s[k] \in 194..223
       THEN Cont(s, k + 1, 128, 191) /\ Utf8Valid(s, k + 2)
  ELSE IF s[k] \in 224..239
       THEN /\ Cont(s, k + 1, IF s[k] = 224 THEN 160 ELSE 128,
                              IF s[k] = 237 THEN 159 ELSE 191)
            /\ Cont(s, k + 2, 128, 191)
            /\ Utf8Valid(s, k + 3)
  ELSE IF s[k] \in 240..244
       THEN /\ Cont(s, k + 1, IF s[k] = 240 THEN 144 ELSE 128,
                              IF s[k] = 244 THEN 143 ELSE 191)
            /\ Cont(s, k + 2, 128, 191)
            /\ Cont(s, k + 3, 128, 191)
            /\ Utf8Valid(s, k + 4)
  ELSE FALSE

\* "Error decoding text: " as bytes (the rendering of the error is left out).
DecodeError ==
  <<69, 114, 114, 111, 114, 32, 100, 101, 99, 111, 100, 105, 110, 103, 32,
    116, 101, 120, 116, 58, 32>>

\* Tokenizer::decode(ids) with vocabulary v (RegexTokenizer::decode delegates).
decode(v, s) ==
  LET text_bytes == Flatten([k \in DOMAIN s |-> token_bytes(v, s[k])])
  IN IF Utf8Valid(text_bytes, 1) THEN text_bytes ELSE DecodeError

\* Tokenizer::encode(text) up to its loop.
EncodeCall(texts) ==
  /\ pc = "idle"
  /\ kind = "basic"
  /\ \E t \in texts :
       /\ text' = t
       /\ ids' = t
  /\ pc' = "encode"
  /\ pair' = None
  /\ idx' = 0
  /\ out' = <<>>
  /\ decoded' = <<>>
  /\ UNCHANGED <<kind, merges, vocab, pattern, i, num_merges, trains, assigned,
                 file, saved, ld, twin, arg, trained>>

EncodeStart == EncodeCall(EncTexts)

\* encode(T) for the text T the instance was trained on.
EncodeTrained == trains > 0 /\ EncodeCall({trained.text})

\* One iteration of encode's loop that merges.
EncodeMerge ==
  /\ pc = "encode"
  /\ Len(ids) >= 2
  /\ \E p \in min_key_pairs(merges, get_stats(ids)) :
       /\ p \in DOMAIN merges
       /\ pair' = p
       /\ idx' = merges[p]
       /\ ids' = merge(ids, p, merges[p])
  /\ UNCHANGED <<kind, merges, vocab, pattern, pc, text, i, num_merges, out,
                 decoded, trains, assigned,
                 file, saved, ld, twin, arg, trained>>

\* encode leaves its loop (the while condition fails, or a break) and returns ids.
EncodeReturn ==
  /\ pc = "encode"
  /\ \/ Len(ids) < 2
     \/ min_key_pairs(merges, get_stats(ids)) = {}
     \/ \E p \in min_key_pairs(merges, get_stats(ids)) : p \notin DOMAIN merges
  /\ out' = ids
  /\ pc' = "encoded"
  /\ UNCHANGED <<kind, merges, vocab, pattern, text, ids, i, num_merges, pair,
                 idx, decoded, trains, assigned,
                 file, saved, ld, twin, arg, trained>>

\* RegexTokenizer::encode(text): the chunks' encodings, concatenated.
RegexEncode ==
  /\ pc = "idle"
  /\ kind = "regex"
  /\ \E t \in EncTexts :
       /\ text' = t
       /\ out' = regex_encode(merges, t)
  /\ pc' = "encoded"
  /\ decoded' = <<>>
  /\ UNCHANGED <<kind, merges, vocab, pattern, ids, i, num_merges, pair, idx,
                 trains, assigned,
                 file, saved, ld, twin, arg, trained>>

\* decode(&ids) on the ids encode returned.
Decode ==
  /\ pc = "encoded"
  /\ decoded' = decode(vocab, out)
  /\ pc' = "decoded"
  /\ UNCHANGED <<kind, merges, vocab, pattern, text, ids, i, num_merges, pair,
                 idx, out, trains, assigned,
                 file, saved, ld, twin, arg, trained>>

\* The caller drops the text, the ids and the decoded string.
Drop ==
  /\ pc = "decoded"
  /\ pc' = "idle"
  /\ text' = <<>>
  /\ ids' = <<>>
  /\ pair' = None
  /\ idx' = 0
  /\ out' = <<>>
  /\ decoded' = <<>>
  /\ UNCHANGED <<kind, merges, vocab, pattern, i, num_merges, trains, assigned,
                 file, saved, ld, twin, arg, trained>>

Next ==
  \/ TrainStart
  \/ TrainMerge
  \/ TrainNoPair
  \/ TrainReturn
  \/ EncodeStart
  \/ EncodeMerge
  \/ EncodeReturn
  \/ RegexEncode
  \/ Decode
  \/ Drop

Spec == Init /\ [][Next]_vars

\* The same instance, trained again.
NextRetrain == Next \/ Retrain

SpecRetrain == Init /\ [][NextRetrain]_vars

\* --------------------------------------------------------- save and load

\* format!("{}", n) for a u32: its decimal digits.
RECURSIVE format_u32(_)
format_u32(n) ==
  IF n < 10 THEN <<48 + n>> ELSE format_u32(n \div 10) \o <<48 + (n % 10)>>

\* writeln!(model_file, "{} {}", idx1, idx2)
merge_line(p) == format_u32(p[1]) \o <<32>> \o format_u32(p[2]) \o <<10>>

\* The lines save writes for the merges, iterated in the order `order`.
RECURSIVE merge_lines(_)
merge_lines(order) ==
  IF order = <<>> THEN <<>> ELSE merge_line(Head(order)) \o merge_lines(Tail(order))

\* The bytes save writes to P.model: the pattern line, then one line per entry
\* of self.merges in the map's iteration order.  (P.vocab is written too and
\* never read; it is left out.)
model_file(pat, order) == pat \o <<10>> \o merge_lines(order)

\* BufReader::lines(): the bytes between line feeds, a "\r" just before the
\* line feed dropped (a "\r" that ends the file without a line feed is kept), no
\* last line after a final line feed.  A line starts at byte 1 and after
\* every line feed, and ends before the next line feed or with the file.
line_starts(bytes) ==
  {n \in 1..Len(bytes) : n = 1 \/ bytes[n - 1] = 10}

line_at(bytes, start) ==
  LET feeds == {n \in start..Len(bytes) : bytes[n] = 10}
      stop == IF feeds = {} THEN Len(bytes)
              ELSE (CHOOSE n \in feeds : \A o \in feeds : n <= o) - 1
  IN IF feeds /= {} /\ stop >= start /\ bytes[stop] = 13
     THEN SubSeq(bytes, start, stop - 1)
     ELSE SubSeq(bytes, start, stop)

read_lines(bytes) ==
  [j \in 1..Cardinality(line_starts(bytes)) |->
     line_at(bytes,
             CHOOSE n \in line_starts(bytes) :
               Cardinality({o \in line_starts(bytes) : o < n}) = j - 1)]

\* str::trim(): without the whitespace at both ends.
RECURSIVE trim(_)
trim(line) ==
  IF line = <<>> THEN line
  ELSE IF IsS(Head(line)) THEN trim(Tail(line))
  ELSE IF IsS(line[Len(line)]) THEN trim(SubSeq(line, 1, Len(line) - 1))
  ELSE line

\* str::split_whitespace(): the maximal runs of non-whitespace.
RECURSIVE split_whitespace(_, _)
split_whitespace(line, cur) ==
  IF line = <<>> THEN (IF cur = <<>> THEN <<>> ELSE <<cur>>)
  ELSE IF IsS(Head(line))
       THEN (IF cur = <<>> THEN <<>> ELSE <<cur>>) \o split_whitespace(Tail(line), <<>>)
       ELSE split_whitespace(Tail(line), Append(cur, Head(line)))

\* The value of the decimal digits ds.
RECURSIVE digits_value(_)
digits_value(ds) ==
  IF ds = <<>> THEN 0
  ELSE 10 * digits_value(SubSeq(ds, 1, Len(ds) - 1)) + (ds[Len(ds)] - 48)

\* str::parse::<u32>(): -1 for Err.  An optional "+", then digits only; the
\* model's numbers have at most 9 digits, so none overflows.
parse_u32(part) ==
  LET ds == IF part /= <<>> /\ Head(part) = 43 THEN Tail(part) ELSE part
  IN IF ds = <<>> \/ Len(ds) > 9 \/ \E k \in DOMAIN ds : ~IsAsciiDigit(ds[k])
     THEN -1
     ELSE digits_value(ds)

\* idx += 1 in load's loop.
load_next_id(id) == id + 1

\* load's loop over the lines after the first: every line of exactly two
\* numbers inserts its pair with the next id, from id on.
RECURSIVE load_merges(_, _, _)
load_merges(lines, m, id) ==
  IF lines = <<>> THEN m
  ELSE LET parts == split_whitespace(Head(lines), <<>>)
       IN IF Len(parts) = 2 /\ parse_u32(parts[1]) >= 0 /\ parse_u32(parts[2]) >= 0
          THEN load_merges(Tail(lines),
                           Insert(m, <<parse_u32(parts[1]), parse_u32(parts[2])>>, id),
                           load_next_id(id))
          ELSE load_merges(Tail(lines), m, id)

\* build_vocab's loop over self.merges.keys(), iterated in the order `order`:
\* a key whose two ids have entries gets the next id, the others are passed.
RECURSIVE build_vocab_loop(_, _, _)
build_vocab_loop(order, v, next_idx) ==
  IF order = <<>> THEN v
  ELSE IF Head(order)[1] \in DOMAIN v /\ Head(order)[2] \in DOMAIN v
       THEN build_vocab_loop(Tail(order),
                             Insert(v, next_idx, v[Head(order)[1]] \o v[Head(order)[2]]),
                             next_idx + 1)
       ELSE build_vocab_loop(Tail(order), v, next_idx)

\* build_vocab() when the keys of m come in the order `order`.
build_vocab(order) == build_vocab_loop(order, BaseVocab, FirstMergeId)

\* save(file_prefix) by the instance.
Save ==
  /\ pc = "idle"
  /\ \E order \in Orders(DOMAIN merges) : file' = model_file(pattern, order)
  /\ saved' = [merges |-> merges, vocab |-> vocab, pattern |-> pattern]
  /\ UNCHANGED <<tok_vars, ld, twin, arg>>

\* load(model_file) by the second instance.
Load ==
  /\ file /= <<>>
  /\ LET lines == read_lines(file)
         m == load_merges(Tail(lines), EmptyMap, FirstMergeId)
     IN \E order \in Orders(DOMAIN m) :
          ld' = [pc |-> "loaded",
                 merges |-> m,
                 vocab |-> build_vocab(order),
                 pattern |-> trim(Head(lines)),
                 read |-> file]
  /\ UNCHANGED <<tok_vars, file, saved, twin, arg>>

\* load(model_file) by the instance itself: its pattern, merges and vocab are
\* replaced by what the file gives.
LoadSelf ==
  /\ pc = "idle"
  /\ file /= <<>>
  /\ LET lines == read_lines(file)
         m == load_merges(Tail(lines), EmptyMap, FirstMergeId)
     IN /\ pattern' = trim(Head(lines))
        /\ merges' = m
        /\ \E order \in Orders(DOMAIN m) : vocab' = build_vocab(order)
  /\ UNCHANGED <<kind, pc, text, ids, i, num_merges, pair, idx, out, decoded,
                 trains, assigned, trained, file, saved, ld, twin, arg>>

\* build_vocab() called on the instance: vocab is rebuilt from merges.
BuildVocab ==
  /\ pc = "idle"
  /\ \E order \in Orders(DOMAIN merges) : vocab' = build_vocab(order)
  /\ UNCHANGED <<kind, merges, pattern, pc, text, ids, i, num_merges, pair, idx,
                 out, decoded, trains, assigned, trained, file, saved, ld, twin,
                 arg>>

\* Training, saving, loading (into a second instance or into the instance
\* itself) and rebuilding the vocabulary.
NextPersist ==
  \/ TrainStart
  \/ TrainMerge
  \/ TrainNoPair
  \/ TrainReturn
  \/ Save
  \/ Load
  \/ LoadSelf
  \/ BuildVocab

SpecPersist == Init /\ [][NextPersist]_vars

\* ------------------------------------------- two instances, the same input

\* The second instance starts train with the text and vocab_size of the first.
TwinStart ==
  /\ pc = "train_exit"
  /\ twin.pc = "new"
  /\ twin' = [twin EXCEPT !.pc = IF num_merges = 0 THEN "train_exit" ELSE "train",
                          !.ids = train_ids(kind, text),
                          !.i = 0]
  /\ UNCHANGED <<tok_vars, file, saved, ld, arg>>

\* One iteration of the second instance's training loop that finds a pair.
TwinMerge ==
  /\ twin.pc = "train"
  /\ \E p \in find_most_frequent_pair(train_stats(kind, twin.ids)) :
       twin' = [pc |-> loop_pc(twin.i, num_merges, FALSE),
                merges |-> Insert(twin.merges, p, new_id(twin.i)),
                vocab |-> train_vocab(twin.vocab, p, new_id(twin.i)),
                ids |-> train_merge(kind, twin.ids, p, new_id(twin.i)),
                i |-> twin.i + 1]
  /\ UNCHANGED <<tok_vars, file, saved, ld, arg>>

\* One iteration of the second instance's training loop that finds no pair.
TwinNoPair ==
  /\ twin.pc = "train"
  /\ find_most_frequent_pair(train_stats(kind, twin.ids)) = {}
  /\ twin' = [twin EXCEPT !.pc = loop_pc(twin.i, num_merges, kind = "regex"),
                          !.i = IF kind = "regex" THEN twin.i ELSE twin.i + 1]
  /\ UNCHANGED <<tok_vars, file, saved, ld, arg>>

\* Two fresh instances trained on the same text with the same vocab_size.
NextTwin ==
  \/ TrainStart
  \/ TrainMerge
  \/ TrainNoPair
  \/ TwinStart
  \/ TwinMerge
  \/ TwinNoPair

SpecTwin == Init /\ [][NextTwin]_vars

\* ------------------------------------------------------- merge on its own

\* The ids merge is called with on its own, and their longest sequence.
MergeSymbols == {1, 2, 3}
MaxMergeLen == 7

\* The arguments of a call of merge.
InitMerge ==
  /\ InitTok
  /\ kind = "basic"
  /\ \E s \in SeqsUpTo(MergeSymbols, MaxMergeLen), a \in MergeSymbols, b \in MergeSymbols :
       arg = [pc |-> "call", ids |-> s, pair |-> <<a, b>>, idx |-> FirstMergeId,
              result |-> <<>>]

\* merge(ids, pair, idx) returns.
MergeCall ==
  /\ arg.pc = "call"
  /\ arg' = [arg EXCEPT !.pc = "done", !.result = merge(arg.ids, arg.pair, arg.idx)]
  /\ UNCHANGED <<tok_vars, file, saved, ld, twin>>

NextMerge == MergeCall

SpecMerge == InitMerge /\ [][NextMerge]_vars

\* ------------------------------------------- train once, then encode(T)

\* A fresh basic Tokenizer is trained once on a text T and then encodes T.
InitReplay == Init /\ kind = "basic"

NextReplay ==
  \/ TrainStart
  \/ TrainMerge
  \/ TrainNoPair
  \/ TrainReturnKeep
  \/ EncodeTrained
  \/ EncodeMerge
  \/ EncodeReturn

SpecReplay == InitReplay /\ [][NextReplay]_vars

\* =================================================================== claims

\* The adjacent pairs of s that are keys of the merge table m.
KeyPairs(m, s) == Windows(s) \cap DOMAIN m

\* s with the two ids at positions k, k + 1 replaced by id.
ReplaceAt(s, k, id) == SubSeq(s, 1, k - 1) \o <<id>> \o SubSeq(s, k + 2, Len(s))

\* The priority procedure of the specification on one sequence: while some
\* adjacent pair is a key of m, Merge with a key pair of smallest id.  The set
\* of sequences it may end with (one, when the ids of m are distinct).
RECURSIVE PriorityOutcomes(_, _)
PriorityOutcomes(m, s) ==
  IF KeyPairs(m, s) = {} THEN {s}
  ELSE UNION {PriorityOutcomes(m, merge(s, p, m[p])) :
                p \in {q \in KeyPairs(m, s) : \A r \in KeyPairs(m, s) : m[q] <= m[r]}}

\* The concatenations of one priority outcome per chunk, in chunk order.
RECURSIVE PriorityConcat(_, _)
PriorityConcat(m, chunks) ==
  IF chunks = <<>> THEN {<<>>}
  ELSE {a \o b : a \in PriorityOutcomes(m, Head(chunks)),
                 b \in PriorityConcat(m, Tail(chunks))}

\* Every sequence that replacing adjacent key pairs of m by their ids, anywhere
\* and in any order, makes of s.
RECURSIVE Derivable(_, _)
Derivable(m, s) ==
  {s} \cup UNION {Derivable(m, ReplaceAt(s, k, m[<<s[k], s[k + 1]>>])) :
                    k \in {j \in 1..(Len(s) - 1) : <<s[j], s[j + 1]>> \in DOMAIN m}}

\* o is made of one segment per chunk, in order, each made from its chunk alone.
RECURSIVE Segmented(_, _, _)
Segmented(m, o, chunks) ==
  IF chunks = <<>> THEN o = <<>>
  ELSE \E n \in 0..Len(o) :
         /\ SubSeq(o, 1, n) \in Derivable(m, Head(chunks))
         /\ Segmented(m, SubSeq(o, n + 1, Len(o)), Tail(chunks))

\* The number of places, over all chunks, where p is adjacent inside a chunk.
InChunkCount(chunks, p) ==
  Cardinality({ck \in UNION {{<<c, k>> : k \in 1..(Len(chunks[c]) - 1)} : c \in DOMAIN chunks} :
                 <<chunks[ck[1]][ck[2]], chunks[ck[1]][ck[2] + 1]>> = p})

\* The pairs adjacent inside one chunk.
InChunkPairs(chunks) == UNION {Windows(chunks[c]) : c \in DOMAIN chunks}

\* The second instance has loaded the file the first instance saved last.
Loaded == ld.pc = "loaded" /\ ld.read = file

\* C1: round trip.  For every text, decode(encode(text)) is the text, in the
\* untrained state and in every state reached by train calls.
C1_RoundTrip == pc = "decoded" => decoded = text

\* C2: persistence round trip.  After save and load into a fresh instance,
\* the loaded merge table, pattern and vocabulary equal those of the saver.
C2_PersistRoundTrip ==
  Loaded =>
    /\ ld.merges = saved.merges
    /\ ld.pattern = saved.pattern
    /\ ld.vocab = saved.vocab

\* C3: merge determinism.  Two fresh instances of one kind trained on the same
\* text with the same vocab_size end with the same merge table and vocabulary.
C3_Determinism ==
  (pc = "train_exit" /\ twin.pc = "train_exit") =>
    (twin.merges = merges /\ twin.vocab = vocab)

\* C4: monotonic ids.  Over all train calls on the instance, the k-th merge
\* learned (0-based) gets id 256 + k, which is above 255 and above every id
\* assigned before.
C4_MonotonicIds ==
  \A k \in DOMAIN assigned :
    /\ assigned[k] = FirstMergeId + (k - 1)
    /\ assigned[k] > 255
    /\ \A j \in 1..(k - 1) : assigned[j] < assigned[k]

\* C5: vocabulary size.  A fresh tokenizer has no merges and 256 vocabulary
\* entries; while and after it is trained with vocab_size V the vocabulary has
\* 256 + m entries for the m entries of the merge table, m <= V - 256, and
\* m < V - 256 at the end of train only when no adjacent pair is left.
C5_VocabSize ==
  /\ trains = 0 => (merges = EmptyMap /\ Cardinality(DOMAIN vocab) = 256)
  /\ Cardinality(DOMAIN vocab) = 256 + Cardinality(DOMAIN merges)
  /\ pc \in {"train", "train_exit"} => Cardinality(DOMAIN merges) <= num_merges
  /\ (pc = "train_exit" /\ Cardinality(DOMAIN merges) < num_merges) =>
       InChunkPairs(IF kind = "basic" THEN <<ids>> ELSE ids) = {}

\* C5's case: train stopped short of V - 256 merges after learning one.
C5_Witness ==
  /\ pc = "train_exit"
  /\ num_merges = 2
  /\ Cardinality(DOMAIN merges) = 1
  /\ Cardinality(DOMAIN vocab) = 257

\* C6: chunk isolation.  In RegexTokenizer::train the statistics of every
\* iteration count exactly the pairs adjacent inside one chunk, the pair an
\* iteration merges is adjacent inside one chunk, and the chunks stay apart;
\* what RegexTokenizer::encode returns is one run of tokens per chunk, each
\* made from that chunk alone.
C6_ChunkIsolation ==
  /\ [](kind = "regex" /\ pc = "train" =>
          train_stats(kind, ids) = [p \in InChunkPairs(ids) |-> InChunkCount(ids, p)])
  /\ [][(kind = "regex" /\ pc = "train" /\ assigned' /= assigned) =>
          /\ pair' \in InChunkPairs(ids)
          /\ Len(ids') = Len(text_chunks(text))
          /\ \A c \in DOMAIN ids' : ids'[c] \in Derivable(merges', text_chunks(text)[c])]_vars
  /\ [](kind = "regex" /\ pc = "encoded" => Segmented(merges, out, text_chunks(text)))

\* C6's case: a text of several chunks was trained on and a merge was learned
\* that leaves a pair across a chunk boundary a key of no merge.
C6_Witness ==
  /\ kind = "regex"
  /\ pc = "train"
  /\ Len(ids) >= 2
  /\ pair /= None
  /\ Windows(text) \ InChunkPairs(text_chunks(text)) /= {}

\* C7: regex encoding is chunk-local priority merging.  What
\* RegexTokenizer::encode returns is, chunk by chunk, what the priority
\* procedure (smallest id first) makes of the chunk.
C7_PriorityChunks ==
  (kind = "regex" /\ pc = "encoded") =>
    out \in PriorityConcat(merges, text_chunks(text))

\* C8: vocabulary rebuild.  After load, the vocabulary has entries exactly for
\* 0..255+m, a byte id maps to its byte, every merge (a, b) -> id has
\* vocab[id] = vocab[a] ++ vocab[b], and equal merge tables give equal
\* vocabularies.
C8_VocabRebuild ==
  Loaded =>
    /\ DOMAIN ld.vocab = 0..(255 + Cardinality(DOMAIN ld.merges))
    /\ \A b \in 0..255 : ld.vocab[b] = <<b>>
    /\ \A p \in DOMAIN ld.merges :
         /\ {ld.merges[p], p[1], p[2]} \subseteq DOMAIN ld.vocab
         /\ ld.vocab[ld.merges[p]] = ld.vocab[p[1]] \o ld.vocab[p[2]]
    /\ ld.merges = saved.merges => ld.vocab = saved.vocab

\* C9: basic encoding merges in priority order and terminates.  Every
\* iteration of Tokenizer::encode that merges takes an adjacent key pair of
\* smallest id and applies Merge with it, which shortens the sequence; in the
\* loop encode can always take a step, so it returns after at most
\* Len(text) iterations; and it returns exactly when fewer than 2 ids are left
\* or no adjacent pair is a key.
C9_EncodePriority ==
  /\ [][(pc = "encode" /\ pc' = "encode") =>
          /\ pair' \in KeyPairs(merges, ids)
          /\ \A q \in KeyPairs(merges, ids) : merges[pair'] <= merges[q]
          /\ idx' = merges[pair']
          /\ ids' = merge(ids, pair', idx')
          /\ Len(ids') < Len(ids)]_vars
  /\ [][pc = "encode" =>
          ((Len(ids) < 2 \/ KeyPairs(merges, ids) = {})
             <=> (pc' = "encoded" /\ out' = ids))]_vars
  /\ [](pc = "encode" => ENABLED (EncodeMerge \/ EncodeReturn))
  /\ []((kind = "basic" /\ pc = "encoded") =>
          (Len(out) < 2 \/ KeyPairs(merges, out) = {}))

\* C9's case: encode has merged with the second merge of a table, which the
\* first merge had to precede.
C9_Witness ==
  /\ pc = "encoded"
  /\ kind = "basic"
  /\ idx = FirstMergeId + 1
  /\ Len(out) < Len(text)

\* The greedy left-to-right non-overlapping rewrite, told by positions: a match
\* starts at k when the pair is at k, k + 1 and no match starts at k - 1.
RECURSIVE MatchStarts(_, _, _)
MatchStarts(s, p, k) ==
  /\ k >= 1
  /\ k + 1 <= Len(s)
  /\ s[k] = p[1]
  /\ s[k + 1] = p[2]
  /\ ~MatchStarts(s, p, k - 1)

\* The rewrite from position k on: a position a match covers second gives
\* nothing, one where a match starts gives id, any other its own id.
RECURSIVE GreedyRewrite(_, _, _, _)
GreedyRewrite(s, p, id, k) ==
  IF k > Len(s) THEN <<>>
  ELSE (IF MatchStarts(s, p, k - 1) THEN <<>>
        ELSE IF MatchStarts(s, p, k) THEN <<id>>
        ELSE <<s[k]>>)
       \o GreedyRewrite(s, p, id, k + 1)

\* C10: merge is the greedy left-to-right non-overlapping rewrite; (a, a, a)
\* with pair (a, a) gives (idx, a), and [1,2,1,2,3,1,2] with pair (1, 2) and
\* idx 256 gives [256,256,3,256].
C10_MergeGreedy ==
  arg.pc = "done" =>
    /\ arg.result = GreedyRewrite(arg.ids, arg.pair, arg.idx, 1)
    /\ (arg.pair[1] = arg.pair[2] /\ arg.ids = <<arg.pair[1], arg.pair[1], arg.pair[1]>>)
         => arg.result = <<arg.idx, arg.pair[1]>>
    /\ (arg.ids = <<1, 2, 1, 2, 3, 1, 2>> /\ arg.pair = <<1, 2>> /\ arg.idx = 256)
         => arg.result = <<256, 256, 3, 256>>

\* C10's case: merge returned for the run (a, a, a) with pair (a, a).
C10_Witness ==
  /\ arg.pc = "done"
  /\ arg.ids = <<1, 1, 1>>
  /\ arg.pair = <<1, 1>>
  /\ arg.result = <<FirstMergeId, 1>>

\* C11: encoding replays training.  For a fresh basic Tokenizer trained once
\* on a text T, encode(T) returns the id sequence train held when it returned;
\* encode applies the learned merges in the order they were learned (ids 256,
\* 257, ...) and applies every one of them; and during training no adjacent
\* pair of the sequence is a pair that was merged before.
C11_Replay ==
  /\ []((pc = "encoded" /\ text = trained.text) => out = trained.ids)
  /\ [][(pc = "encode" /\ pc' = "encode") =>
          idx' = IF idx = 0 THEN FirstMergeId ELSE idx + 1]_vars
  /\ []((pc = "encoded" /\ text = trained.text) =>
          idx = IF merges = EmptyMap
                THEN 0
                ELSE FirstMergeId + Cardinality(DOMAIN merges) - 1)
  /\ [](pc \in {"train", "train_exit"} => KeyPairs(merges, ids) = {})

\* C11's case: trained on "aaab" with two merges, (97,97) -> 256 and
\* (97,98) -> 257, encode("aaab") returned.
C11_Witness ==
  /\ pc = "encoded"
  /\ trained.text = <<97, 97, 97, 98>>
  /\ text = trained.text
  /\ merges = (<<97, 97>> :> 256 @@ <<97, 98>> :> 257)
  /\ out = <<256, 257>>

====
